---- MODULE Spec2Model ----
(***************************************************************************)
(* A state-machine model of video_comparator.py: the VideoComparator frame *)
(* store (loading, pairing, difference) and the VideoComparatorApp session *)
(* (slider, viewport, playback, swap).                                     *)
(*                                                                         *)
(* Conventions.                                                            *)
(*  - Python None is the empty tuple <<>>, a present value x is <<x>>.      *)
(*  - Python lists are sequences; a 0-based index i reads element i + 1.    *)
(*  - zoom is a Python float; the model keeps it as an exact fraction       *)
(*    [n, d] in lowest terms, so the clamp and floor-division laws are      *)
(*    those of real arithmetic.                                             *)
(*  - A handler is an operator from a session record to a session record;  *)
(*    field exc says that a Python exception is propagating out of it.      *)
(***************************************************************************)
EXTENDS Integers, Sequences, FiniteSets, TLC

VARIABLES
    ref_frames, comp_frames, ref_info, comp_info, current_frame_idx,
    ref_path, comp_path, zoom, pan_x, pan_y, rotation_angle,
    is_playing, loop_enabled, timer_active, diff_visible,
    zoom_buffer_shape, zoom_buffer, zoom_buffer_dims, slider_value,
    slider_max, left_title, mid_title, view_h, view_w, crashed,
    ev, req, ret, diffs, renders, shown, msg, old_zoom,
    events_done, budget, turns

vars ==
    << ref_frames, comp_frames, ref_info, comp_info, current_frame_idx,
       ref_path, comp_path, zoom, pan_x, pan_y, rotation_angle,
       is_playing, loop_enabled, timer_active, diff_visible,
       zoom_buffer_shape, zoom_buffer, zoom_buffer_dims, slider_value,
       slider_max, left_title, mid_title, view_h, view_w, crashed,
       ev, req, ret, diffs, renders, shown, msg, old_zoom,
       events_done, budget, turns >>

(***************************************************************************)
(* Bounds of the exploration.                                              *)
(***************************************************************************)
\* events handled in one run of the application
MaxEvents == 5
\* events handled in one run of the viewport scenario
MaxViewEvents == 6
\* calls made in one run of the frame-store scenario
MaxCalls == 5
\* events handled in one run of the odd-size scenario
MaxEdgeEvents == 6
\* mouse moves handled in one run of the probe scenario
MaxProbes == 1
\* differences computed in one run of the difference scenario
MaxDiffs == 1
\* loads made in one run of the sampling scenario
MaxLoads == 2
\* events handled in one run of the stored-frames scenario
MaxFrameEvents == 5
\* user events handled in one run of the playback scenario
MaxPlayEvents == 5

(***************************************************************************)
(* Program constants.                                                      *)
(***************************************************************************)
\* max(1, n // 300) in load_video
SampleTarget == 300
\* self.on_pan_requested(+20, 0) and its three siblings
PanKeyStep == 20
\* self.setMinimumSize(400, 300)
MinViewW == 400
MinViewH == 300

None == <<>>
Some(x) == <<x>>
IsNone(o) == o = <<>>
Val(o) == o[1]

Min2(a, b) == IF a <= b THEN a ELSE b
Max2(a, b) == IF a >= b THEN a ELSE b

(***************************************************************************)
(* Exact fractions for the float zoom.                                     *)
(***************************************************************************)
RECURSIVE Gcd(_, _)
Gcd(a, b) == IF b = 0 THEN a ELSE Gcd(b, a % b)

Abs(a) == IF a < 0 THEN -a ELSE a

Rat(n, d) ==
    LET g == Gcd(Abs(n), Abs(d))
        sg == IF d < 0 THEN -1 ELSE 1
    IN  [n |-> sg * (n \div g), d |-> sg * (d \div g)]

\* a < b, a <= b and a + b over the common denominator
Lcm(a, b) == (a \div Gcd(a, b)) * b
Scaled(a, l) == a.n * (l \div a.d)
RLt(a, b) == Scaled(a, Lcm(a.d, b.d)) < Scaled(b, Lcm(a.d, b.d))
RLe(a, b) == Scaled(a, Lcm(a.d, b.d)) <= Scaled(b, Lcm(a.d, b.d))
RAdd(a, b) ==
    Rat(Scaled(a, Lcm(a.d, b.d)) + Scaled(b, Lcm(a.d, b.d)), Lcm(a.d, b.d))
RNeg(a) == [n |-> -a.n, d |-> a.d]
\* Python's min(a, b) and max(a, b): the first argument wins a tie
RMin(a, b) == IF RLt(b, a) THEN b ELSE a
RMax(a, b) == IF RLt(a, b) THEN b ELSE a
\* a * b, a / b for b # 0, the fraction of an integer, and int(a) for a >= 0
RMul(a, b) == Rat(a.n * b.n, a.d * b.d)
RDiv(a, b) == Rat(a.n * b.d, a.d * b.n)
RInt(i) == [n |-> i, d |-> 1]
RTrunc(a) == a.n \div a.d
\* the zooms whose double lies just above the decimal fraction they stand
\* for: 1.0 - 0.1 - 0.1 is 0.8000000000000000444, and so on down the steps
RoundedUp ==
    { [n |-> 4, d |-> 5], [n |-> 3, d |-> 5], [n |-> 1, d |-> 2],
      [n |-> 2, d |-> 5] }
\* out // zoom for an integer out and a positive float zoom: the floor of
\* the quotient by the double, one short of out / zoom where the double is
\* just above a divisor of out
FloorDivRat(out, z) ==
    IF (out * z.d) % z.n = 0 /\ z \in RoundedUp
    THEN (out * z.d) \div z.n - 1
    ELSE (out * z.d) \div z.n

(***************************************************************************)
(* Raster frames.  A frame is described by where it comes from (src, k),   *)
(* its shape (h, w), its pixel value rgb (every frame of the catalogue is  *)
(* one solid colour), the clockwise rotation applied to it (rot) and       *)
(* whether it went through cv2.resize (rs).                                *)
(***************************************************************************)
Raster(src, k, h, w, rgb) ==
    [src |-> src, k |-> k, h |-> h, w |-> w, rgb |-> rgb, rot |-> 0, rs |-> FALSE]

Pixel(f, y, x) == f.rgb

\* cv2.cvtColor(frame, cv2.COLOR_BGR2RGB): the channel order is reversed
BGR2RGB(f) == [f EXCEPT !.rgb = << f.rgb[3], f.rgb[2], f.rgb[1] >>]

\* cv2.resize(img, (w, h), INTER_LINEAR) of a solid-colour frame
Resize(f, w, h) == [f EXCEPT !.h = h, !.w = w, !.rs = TRUE]

(***************************************************************************)
(* The file system and decode backend the loaders read.  An entry says     *)
(* whether the path exists and what it is; for a video, whether            *)
(* cv2.VideoCapture opens it, the header's width, height and frame count   *)
(* and the frames cap.read() yields (BGR); for a folder, os.listdir's      *)
(* entries, each with its name (a zero-padded number, so that the          *)
(* lexicographic order is the numeric one), its suffix and what            *)
(* cv2.imread returns for it.                                              *)
(***************************************************************************)
RedBGR == << 0, 0, 255 >>
BlueBGR == << 255, 0, 0 >>

Decoded(src, count, h, w, bgr) == [i \in 1..count |-> Raster(src, i - 1, h, w, bgr)]

Entry(exists, kind, suffix, opened, w, h, n, decoded, listing) ==
    [exists |-> exists, kind |-> kind, suffix |-> suffix, opened |-> opened,
     width |-> w, height |-> h, nframes |-> n, decoded |-> decoded,
     listing |-> listing]

DirEntry(name, suffix, img) == [name |-> name, suffix |-> suffix, img |-> img]

VideoEntry(src, suffix, count, h, w, bgr) ==
    Entry(TRUE, "file", suffix, TRUE, w, h, count, Decoded(src, count, h, w, bgr), <<>>)

\* videos of 4x4 frames, by the number of frames they hold, around the
\* multiples of the sampling target
ClipFrames ==
    ("clip1.mp4" :> 1) @@ ("clip299.mp4" :> 299) @@ ("clip300.mp4" :> 300) @@
    ("clip301.mp4" :> 301) @@ ("clip599.mp4" :> 599) @@ ("clip600.mp4" :> 600) @@
    ("clip899.mp4" :> 899) @@ ("clip1200.mp4" :> 1200)

FS(path) ==
    CASE path \in DOMAIN ClipFrames ->
            VideoEntry(path, ".mp4", ClipFrames[path], 4, 4, RedBGR)
      [] path = "red40.mp4" -> VideoEntry(path, ".mp4", 3, 40, 40, RedBGR)
      [] path = "blue100.avi" -> VideoEntry(path, ".avi", 2, 100, 100, BlueBGR)
      [] path = "red4.mp4" -> VideoEntry(path, ".mp4", 10, 4, 4, RedBGR)
      [] path = "blue4.mp4" -> VideoEntry(path, ".mp4", 10, 4, 4, BlueBGR)
      \* a container that opens and whose reads all fail
      [] path = "empty.mkv" -> VideoEntry(path, ".mkv", 0, 100, 100, RedBGR)
      \* images of two sizes, one text file, one unreadable image; unsorted
      [] path = "mixed" ->
            Entry(TRUE, "dir", "", FALSE, 0, 0, 0, <<>>,
                  << DirEntry(2, ".png", Some(Raster(path, 2, 40, 40, BlueBGR))),
                     DirEntry(4, ".jpg", None),
                     DirEntry(1, ".PNG", Some(Raster(path, 1, 100, 100, RedBGR))),
                     DirEntry(3, ".txt", None) >>)
      \* one frame of odd height 75 and odd width 25
      [] path = "odd.mp4" -> VideoEntry(path, ".mp4", 1, 75, 25, RedBGR)
      \* a folder holding a single one-pixel image
      [] path = "dot" ->
            Entry(TRUE, "dir", "", FALSE, 0, 0, 0, <<>>,
                  << DirEntry(1, ".png", Some(Raster(path, 1, 1, 1, BlueBGR))) >>)
      [] path = "nopics" ->
            Entry(TRUE, "dir", "", FALSE, 0, 0, 0, <<>>,
                  << DirEntry(1, ".txt", None) >>)
      [] path = "broken.mov" -> Entry(TRUE, "file", ".mov", FALSE, 0, 0, 0, <<>>, <<>>)
      [] path = "notes.txt" -> Entry(TRUE, "file", ".txt", FALSE, 0, 0, 0, <<>>, <<>>)
      [] OTHER -> Entry(FALSE, "none", "", FALSE, 0, 0, 0, <<>>, <<>>)

\* str.lower() on the suffixes of the catalogue
Lower(suffix) == IF suffix = ".PNG" THEN ".png" ELSE suffix

ImageExtensions == {".jpg", ".jpeg", ".png", ".bmp", ".tiff", ".tif", ".webp"}
VideoExtensions == {".mp4", ".avi", ".mov", ".mkv", ".flv", ".wmv"}

Info(frames, w, h) == [frames |-> frames, width |-> w, height |-> h, count |-> Len(frames)]

\* frames.append(...) for every i with i % step == 0, in decode order
SampleEvery(decoded, step) ==
    [j \in 1..((Len(decoded) + step - 1) \div step) |-> BGR2RGB(decoded[(j - 1) * step + 1])]

load_video(path) ==
    LET e == FS(path)
        step == Max2(1, e.nframes \div SampleTarget)
    IN  IF path = "" \/ ~e.exists THEN None
        ELSE IF ~e.opened THEN None
        ELSE Some(Info(SampleEvery(e.decoded, step), e.width, e.height))

RECURSIVE InsertByName(_, _)
InsertByName(x, s) ==
    IF s = <<>> THEN << x >>
    ELSE IF x.name <= Head(s).name THEN << x >> \o s
    ELSE << Head(s) >> \o InsertByName(x, Tail(s))

\* sorted(os.listdir(folder_path))
RECURSIVE SortByName(_)
SortByName(s) == IF s = <<>> THEN <<>> ELSE InsertByName(Head(s), SortByName(Tail(s)))

IsImageFile(d) == Lower(d.suffix) \in ImageExtensions
IsReadable(d) == ~IsNone(d.img)

load_images_from_folder(path) ==
    LET e == FS(path)
        image_files == SelectSeq(SortByName(e.listing), IsImageFile)
        read == SelectSeq(image_files, IsReadable)
        frames == [i \in 1..Len(read) |-> BGR2RGB(Val(read[i].img))]
    IN  IF path = "" \/ ~e.exists THEN None
        ELSE IF image_files = <<>> THEN None
        ELSE IF frames = <<>> THEN None
        \* w, h come from the first image that was read
        ELSE Some(Info(frames, Val(read[1].img).w, Val(read[1].img).h))

(***************************************************************************)
(* The session record: the fields of VideoComparator and                   *)
(* VideoComparatorApp, the frame slider, and what the running handler has  *)
(* done so far (ret: the last get_frame_triplet result; diffs: difference  *)
(* rasters computed; renders: one record per _zoom_in1 call; shown: the    *)
(* viewers given a pixmap; msg: the message box shown; old_zoom: the zoom  *)
(* a zoom request started from).  zoom_buffer lists the slots of the       *)
(* scratch buffer written since it was last all zero, oldest first, and    *)
(* zoom_buffer_dims is the shape of the array self._zoom_buffer refers to  *)
(* (None while it refers to none).                                         *)
(***************************************************************************)
St ==
    [ref_frames |-> ref_frames, comp_frames |-> comp_frames,
     ref_info |-> ref_info, comp_info |-> comp_info,
     current_frame_idx |-> current_frame_idx,
     ref_path |-> ref_path, comp_path |-> comp_path,
     zoom |-> zoom, pan_x |-> pan_x, pan_y |-> pan_y,
     rotation_angle |-> rotation_angle,
     is_playing |-> is_playing, loop_enabled |-> loop_enabled,
     timer_active |-> timer_active, diff_visible |-> diff_visible,
     zoom_buffer_shape |-> zoom_buffer_shape, zoom_buffer |-> zoom_buffer,
     zoom_buffer_dims |-> zoom_buffer_dims,
     slider_value |-> slider_value, slider_max |-> slider_max,
     left_title |-> left_title, mid_title |-> mid_title,
     exc |-> FALSE, ret |-> None, diffs |-> 0, renders |-> <<>>,
     shown |-> <<>>, msg |-> "", old_zoom |-> None]

\* an exception leaves the handler
Raise(s) == [s EXCEPT !.exc = TRUE]

(***************************************************************************)
(* VideoComparator                                                         *)
(***************************************************************************)
set_ref(s, info) == [s EXCEPT !.ref_frames = info.frames, !.ref_info = Some(info)]

set_comp(s, info) == [s EXCEPT !.comp_frames = info.frames, !.comp_info = Some(info)]

\* the count comes out one short
frame_count_short(s) ==
    IF ~(s.ref_frames # <<>> /\ s.comp_frames # <<>>) THEN 0
    ELSE Min2(Len(s.ref_frames), Len(s.comp_frames)) - 1

frame_count(s) ==
    IF ~(s.ref_frames # <<>> /\ s.comp_frames # <<>>) THEN 0
    ELSE Min2(Len(s.ref_frames), Len(s.comp_frames))

\* max(0, min(self.frame_count() - 1, int(idx)))
ClampIndex(s, idx) == Max2(0, Min2(frame_count(s) - 1, idx))

\* (mag * 255).astype(np.uint8) for mag = float32(d) / 255.0: the float32
\* product truncates to d itself for every d in 0..255
DiffRed(d) == d

\* ((1.0 - mag) * 255).astype(np.uint8), entry d + 1 for the distance d,
\* evaluated in float32 as numpy does: the product is truncated, not
\* rounded, and falls just below 255 - d for many d
BlueTable ==
    <<
       255, 254, 253, 252, 251, 250, 249, 248, 247, 246, 245, 244, 243, 242, 241, 240,
       239, 238, 237, 236, 235, 234, 233, 232, 231, 230, 229, 228, 227, 226, 225, 224,
       223, 222, 221, 220, 219, 218, 217, 216, 215, 214, 213, 212, 211, 210, 209, 208,
       207, 206, 205, 204, 203, 202, 201, 200, 199, 198, 197, 196, 195, 194, 193, 192,
       191, 189, 189, 187, 187, 185, 185, 183, 183, 181, 181, 179, 179, 177, 177, 175,
       175, 173, 173, 171, 171, 169, 169, 167, 167, 165, 165, 163, 163, 161, 161, 159,
       159, 157, 157, 155, 155, 153, 153, 151, 151, 149, 149, 147, 147, 145, 145, 143,
       143, 141, 141, 139, 139, 137, 137, 135, 135, 133, 133, 131, 131, 129, 129, 127,
       126, 125, 124, 123, 122, 121, 120, 119, 118, 117, 116, 115, 114, 113, 112, 111,
       110, 109, 108, 107, 106, 105, 104, 103, 102, 101, 100, 99, 98, 97, 96, 95,
       94, 93, 92, 91, 90, 89, 88, 87, 86, 85, 84, 83, 82, 81, 80, 79,
       78, 77, 76, 75, 74, 73, 72, 71, 70, 69, 68, 67, 66, 65, 64, 63,
       62, 61, 60, 59, 58, 57, 56, 55, 54, 53, 52, 51, 50, 49, 48, 47,
       46, 45, 44, 43, 42, 41, 40, 39, 38, 37, 36, 35, 34, 33, 32, 31,
       30, 29, 28, 27, 26, 25, 24, 23, 22, 21, 20, 19, 18, 17, 16, 15,
       14, 13, 12, 11, 10, 9, 8, 7, 6, 5, 4, 3, 2, 1, 0, 0
    >>

\* the blue channel is filled like the red one
DiffBlue_asred(d) == d

DiffBlue(d) == BlueTable[d + 1]

\* np.max(cv2.absdiff(ref, comp), axis=2) at one pixel
Chebyshev(p, q) == Max2(Abs(p[1] - q[1]), Max2(Abs(p[2] - q[2]), Abs(p[3] - q[3])))

DiffPixel(p, q) == << DiffRed(Chebyshev(p, q)), 0, DiffBlue(Chebyshev(p, q)) >>

\* the difference raster of two frames of one shape (lines 220-227)
ComputeDiff(ref, comp) ==
    [src |-> "diff", k |-> ref.k, h |-> ref.h, w |-> ref.w,
     rgb |-> DiffPixel(ref.rgb, comp.rgb), rot |-> 0, rs |-> FALSE]

\* the comparison frame is never resized
NeedsResize_never(comp_raw, info) == FALSE

\* comp_raw.shape[:2] != (ref_info["height"], ref_info["width"])
NeedsResize(comp_raw, info) ==
    << comp_raw.h, comp_raw.w >> # << info.height, info.width >>

\* the early return also rewinds the cursor
EmptyTriplet_rewinds(s) ==
    [s EXCEPT !.ret = << None, None, None >>, !.current_frame_idx = 0]

\* return None, None, None
EmptyTriplet(s) == [s EXCEPT !.ret = << None, None, None >>]

\* the comparison frame as the triplet carries it (lines 207-214)
Resized(comp_raw, info) ==
    IF NeedsResize(comp_raw, info)
    THEN Resize(comp_raw, info.width, info.height)
    ELSE comp_raw

\* the return value for the pair ref, comp_resized (lines 216-229)
Triplet(s, ref, comp_resized, compute_diff) ==
    IF ~compute_diff
    THEN [s EXCEPT !.ret = << Some(ref), Some(comp_resized), None >>]
    \* cv2.absdiff rejects operands of different shapes
    ELSE IF << ref.h, ref.w >> # << comp_resized.h, comp_resized.w >>
    THEN Raise(s)
    ELSE [s EXCEPT
            !.ret = << Some(ref), Some(comp_resized),
                       Some(ComputeDiff(ref, comp_resized)) >>,
            !.diffs = @ + 1]

\* the resized comparison frame is written back into the sequence
AtCursor_caches(s, compute_diff) ==
    Triplet([s EXCEPT !.comp_frames[s.current_frame_idx + 1] =
                          Resized(@, Val(s.ref_info))],
            s.ref_frames[s.current_frame_idx + 1],
            Resized(s.comp_frames[s.current_frame_idx + 1], Val(s.ref_info)),
            compute_diff)

\* the read at the cursor, once the cursor is set (lines 203-229)
AtCursor(s, compute_diff) ==
    \* cv2.resize rejects an empty target size
    IF /\ NeedsResize(s.comp_frames[s.current_frame_idx + 1], Val(s.ref_info))
       /\ (Val(s.ref_info).width = 0 \/ Val(s.ref_info).height = 0)
    THEN Raise(s)
    ELSE Triplet(s, s.ref_frames[s.current_frame_idx + 1],
                 Resized(s.comp_frames[s.current_frame_idx + 1], Val(s.ref_info)),
                 compute_diff)

get_frame_triplet(s, idx, compute_diff) ==
    IF frame_count(s) = 0 THEN EmptyTriplet(s)
    ELSE AtCursor([s EXCEPT !.current_frame_idx = ClampIndex(s, idx)], compute_diff)

\* the two pixels at (x, y) (lines 247-255)
PixelPair(s, x, y, ref, comp_resized) ==
    \* IndexError: the frame is smaller than the declared size
    IF ~(y < ref.h /\ x < ref.w) THEN Raise(s)
    ELSE [s EXCEPT !.ret = Some([x |-> x, y |-> y, img1 |-> Pixel(ref, y, x),
                                 img2 |-> Pixel(comp_resized, y, x)])]

get_pixel_info(s, x, y) ==
    IF IsNone(s.ref_info) THEN [s EXCEPT !.ret = None]
    ELSE IF ~(/\ 0 <= x /\ x < Val(s.ref_info).width
              /\ 0 <= y /\ y < Val(s.ref_info).height)
    THEN [s EXCEPT !.ret = None]
    \* IndexError: list index out of range
    ELSE IF s.current_frame_idx + 1 \notin DOMAIN s.ref_frames THEN Raise(s)
    ELSE IF s.current_frame_idx + 1 \notin DOMAIN s.comp_frames THEN Raise(s)
    ELSE PixelPair(s, x, y, s.ref_frames[s.current_frame_idx + 1],
                   Resized(s.comp_frames[s.current_frame_idx + 1], Val(s.ref_info)))

(***************************************************************************)
(* Viewport transform                                                      *)
(***************************************************************************)
\* np.clip(x, min=lo, max=hi) is minimum(maximum(x, lo), hi), also for lo > hi
NpClip(x, lo, hi) == Min2(Max2(x, lo), hi)

\* the number of elements a[start:stop] selects from n, as Python slices
SliceBound(n, i) == IF i < 0 THEN Max2(0, i + n) ELSE Min2(i, n)

PySliceLen(n, start, stop) == Max2(0, SliceBound(n, stop) - SliceBound(n, start))

\* numpy assigns src elements to dst elements along one axis
Broadcasts(src, dst) == src = dst \/ src = 1

\* cv2.rotate: an exact permutation, 90 and 270 swap height and width
Rotate(img, angle) ==
    IF angle \in {90, 270} THEN [img EXCEPT !.h = img.w, !.w = img.h, !.rot = angle]
    ELSE IF angle = 180 THEN [img EXCEPT !.rot = angle]
    ELSE img

\* int(out // self.zoom // 2) * 2
CropSize(out, z) == (FloorDivRat(out, z) \div 2) * 2

\* the bounds np.clip is given for the pan along an axis of length dim
\* the lower bound forgets the half crop
PanLo_nocrop(dim, crop) == -(dim \div 2)

PanLo(dim, crop) == -(dim \div 2) + crop \div 2
PanHi(dim, crop) == dim \div 2 - crop \div 2

ClampPan(pan, dim, crop) == NpClip(pan, PanLo(dim, crop), PanHi(dim, crop))

\* the crop rectangle along an axis of length dim (lines 790-796)
CropStart(dim, pan, crop) == Max2(0, dim \div 2 + pan - crop \div 2)
CropEnd(dim, pan, crop) == dim \div 2 + pan + crop \div 2

\* out_img[...] = img[...] along one axis needs lengths that broadcast
SliceFits(dim, crop, start, end) ==
    Broadcasts(PySliceLen(dim, start, end),
               PySliceLen(crop, crop \div 2 - (end - start) \div 2,
                          crop \div 2 + (end - start) \div 2))

\* self._zoom_buffer[:] = 0 is left out: the buffer keeps what it held
Cleared_stale(buf) == buf

\* self._zoom_buffer[:] = 0
Cleared(buf) == <<>>

\* every call allocates
Allocates_always(s, crop_h, crop_w) == TRUE

\* if self._zoom_buffer_shape != target_shape
Allocates(s, crop_h, crop_w) == s.zoom_buffer_shape # Some(<< crop_h, crop_w, 3 >>)

\* the scratch buffer the copy step starts from: a new array of zeros when
\* the shape changes, the old array zeroed otherwise
Scratch(s, crop_h, crop_w) ==
    IF Allocates(s, crop_h, crop_w) THEN <<>>
    ELSE Cleared(s.zoom_buffer)

\* what one _zoom_in1 call was given and what it cropped; before is the
\* scratch buffer the call found, reused says that it kept the array, and
\* under is the scratch buffer the copy is made onto; tag and dims are the
\* shape tag and the array's shape the call found, allocated says that
\* np.zeros ran
RenderOf(s, img, crop_h, crop_w, clamped_w, clamped_h) ==
    [h |-> img.h, w |-> img.w, crop_h |-> crop_h, crop_w |-> crop_w,
     pan_in |-> << s.pan_x, s.pan_y >>,
     pan_out |-> << clamped_w, clamped_h >>,
     h_start |-> CropStart(img.h, clamped_h, crop_h),
     h_end |-> CropEnd(img.h, clamped_h, crop_h),
     w_start |-> CropStart(img.w, clamped_w, crop_w),
     w_end |-> CropEnd(img.w, clamped_w, crop_w),
     before |-> s.zoom_buffer,
     reused |-> s.zoom_buffer_shape = Some(<< crop_h, crop_w, 3 >>),
     under |-> Scratch(s, crop_h, crop_w),
     tag |-> s.zoom_buffer_shape,
     dims |-> s.zoom_buffer_dims,
     allocated |-> Allocates(s, crop_h, crop_w),
     img |-> img]

\* the elements a[start:stop] selects from n, as a half-open interval
PySlice(n, start, stop) ==
    << SliceBound(n, start), Max2(SliceBound(n, start), SliceBound(n, stop)) >>

\* the rows and columns of the rotated frame that img[...] selects
SrcRows(r) == PySlice(r.h, r.h_start, r.h_end)
SrcCols(r) == PySlice(r.w, r.w_start, r.w_end)

\* the rows and columns of the scratch buffer that out_img[...] selects
DstRows(r) ==
    PySlice(r.crop_h, r.crop_h \div 2 - (r.h_end - r.h_start) \div 2,
            r.crop_h \div 2 + (r.h_end - r.h_start) \div 2)
DstCols(r) ==
    PySlice(r.crop_w, r.crop_w \div 2 - (r.w_end - r.w_start) \div 2,
            r.crop_w \div 2 + (r.w_end - r.w_start) \div 2)

\* the slot of the scratch buffer the copy writes
Slot(r) == [rows |-> DstRows(r), cols |-> DstCols(r)]

\* the zoom buffer is allocated or zeroed and the clamped pan written back
Stored(s, r) ==
    [s EXCEPT !.zoom_buffer_shape =
                  IF r.allocated THEN Some(<< r.crop_h, r.crop_w, 3 >>) ELSE @,
              !.zoom_buffer_dims =
                  IF r.allocated THEN Some(<< r.crop_h, r.crop_w, 3 >>) ELSE @,
              !.zoom_buffer = r.under,
              !.pan_x = r.pan_out[1], !.pan_y = r.pan_out[2],
              !.renders = Append(@, r)]

\* out_img[...] = crop
Copied(s, r) == [s EXCEPT !.zoom_buffer = Append(@, Slot(r))]

\* the crop is pasted into the buffer and the buffer resized to the viewer
Pasted(s, r) ==
    \* out_img[...] = crop needs shapes that broadcast
    IF ~(/\ SliceFits(r.h, r.crop_h, r.h_start, r.h_end)
         /\ SliceFits(r.w, r.crop_w, r.w_start, r.w_end))
    THEN Raise(Stored(s, r))
    \* cv2.resize rejects an empty source
    ELSE IF r.crop_h = 0 \/ r.crop_w = 0 THEN Raise(Copied(Stored(s, r), r))
    ELSE Copied(Stored(s, r), r)

\* the render for a crop window of crop_h rows and crop_w columns
Cropped(s, img, crop_h, crop_w) ==
    Pasted(s, RenderOf(s, img, crop_h, crop_w,
                       ClampPan(s.pan_x, img.w, crop_w),
                       ClampPan(s.pan_y, img.h, crop_h)))

_zoom_in1(s, img) ==
    Cropped(s, img, CropSize(view_h, s.zoom), CropSize(view_w, s.zoom))

_apply_view_transform(s, img) == _zoom_in1(s, Rotate(img, s.rotation_angle))

\* the next statement runs unless an exception is already propagating
Rendered(s, img) == IF s.exc THEN s ELSE _apply_view_transform(s, img)

\* self.left_viewer._set_pixmap(...) and self.mid_viewer._set_pixmap(...)
ShownPair(s) == IF s.exc THEN s ELSE [s EXCEPT !.shown = @ \o << "left", "mid" >>]

\* self.right_viewer._set_pixmap(...)
ShownRight(s) == IF s.exc THEN s ELSE [s EXCEPT !.shown = Append(@, "right")]

\* if diff is not None and self.diff_visible: ...
ShownDiff(s, diff) ==
    IF s.exc \/ IsNone(diff) \/ ~s.diff_visible THEN s
    ELSE ShownRight(Rendered(s, Val(diff)))

_display_triplet(s, ref, comp, diff) ==
    ShownDiff(ShownPair(Rendered(Rendered(s, ref), comp)), diff)

\* what on_frame_changed does with the triplet it fetched
Displayed(s) ==
    IF s.exc \/ IsNone(s.ret[1]) THEN s
    ELSE _display_triplet(s, Val(s.ret[1]), Val(s.ret[2]), s.ret[3])

on_frame_changed(s, idx) == Displayed(get_frame_triplet(s, idx, s.diff_visible))

(***************************************************************************)
(* ImageViewer: the pixel probe.  pm is the label's pixmap, None or the     *)
(* pair << width, height >>; the result is None or the pair emitted with   *)
(* pixel_hovered.                                                          *)
(***************************************************************************)
\* the scale is taken from the widths alone
ProbeScale_width(lbl_w, lbl_h, img_w, img_h) == Rat(lbl_w, img_w)

\* scale = min(lbl_w / img_w, lbl_h / img_h)
ProbeScale(lbl_w, lbl_h, img_w, img_h) == RMin(Rat(lbl_w, img_w), Rat(lbl_h, img_h))

\* offset = (lbl - img * scale) / 2
ProbeOffset(lbl, img, scale) ==
    RDiv(RAdd(RInt(lbl), RNeg(RMul(RInt(img), scale))), RInt(2))

\* (pos - offset) / scale
ProbeCoord(pos, offset, scale) == RDiv(RAdd(RInt(pos), RNeg(offset)), scale)

\* if 0 <= x < img_w and 0 <= y < img_h: emit(int(x), int(y))
ProbeEmit(x, y, img_w, img_h) ==
    IF /\ RLe(RInt(0), x) /\ RLt(x, RInt(img_w))
       /\ RLe(RInt(0), y) /\ RLt(y, RInt(img_h))
    THEN Some(<< RTrunc(x), RTrunc(y) >>)
    ELSE None

\* the coordinates for a scale already computed
ProbeAt(pos_x, pos_y, img_w, img_h, lbl_w, lbl_h, scale) ==
    ProbeEmit(ProbeCoord(pos_x, ProbeOffset(lbl_w, img_w, scale), scale),
              ProbeCoord(pos_y, ProbeOffset(lbl_h, img_h, scale), scale),
              img_w, img_h)

_emit_pixel(pos_x, pos_y, pm, lbl_w, lbl_h) ==
    IF IsNone(pm) THEN None
    ELSE IF pm[1] = 0 \/ pm[2] = 0 THEN None
    ELSE ProbeAt(pos_x, pos_y, pm[1], pm[2], lbl_w, lbl_h,
                 ProbeScale(lbl_w, lbl_h, pm[1], pm[2]))

\* mouseMoveEvent while no button is held
mouseMoveEvent(pos_x, pos_y, pm, lbl_w, lbl_h) ==
    IF 0 <= pos_x /\ pos_x < lbl_w /\ 0 <= pos_y /\ pos_y < lbl_h
    THEN _emit_pixel(pos_x, pos_y, pm, lbl_w, lbl_h)
    ELSE None

(***************************************************************************)
(* The frame slider (QSlider, minimum 0): a value is kept inside           *)
(* [0, maximum], and valueChanged, which is connected to on_frame_changed, *)
(* fires only when the value changes.                                      *)
(***************************************************************************)
SliderSetValue(s, v) ==
    LET nv == Max2(0, Min2(s.slider_max, v))
    IN  IF nv = s.slider_value THEN s
        ELSE on_frame_changed([s EXCEPT !.slider_value = nv], nv)

SliderSetMaximum(s, m) ==
    LET nv == Max2(0, Min2(m, s.slider_value))
        s1 == [s EXCEPT !.slider_max = m, !.slider_value = nv]
    IN  IF nv = s.slider_value THEN s1 ELSE on_frame_changed(s1, nv)

(***************************************************************************)
(* VideoComparatorApp: loading                                             *)
(***************************************************************************)
\* the reset sets the slider and the viewport and forgets the refresh
_reset_state_after_load_silent(s) ==
    IF frame_count(s) = 0 THEN s
    ELSE [s EXCEPT !.slider_max = frame_count(s) - 1, !.slider_value = 0,
                   !.zoom = [n |-> 1, d |-> 1], !.pan_x = 0, !.pan_y = 0,
                   !.rotation_angle = 0, !.is_playing = FALSE,
                   !.timer_active = FALSE]

\* self.frame_slider.setValue(0), after setMaximum
SliderRewound(s) == IF s.exc THEN s ELSE SliderSetValue(s, 0)

\* the viewport and playback fields are reset and frame 0 is shown
ViewReset(s) ==
    IF s.exc THEN s
    ELSE on_frame_changed(
             [s EXCEPT !.zoom = [n |-> 1, d |-> 1], !.pan_x = 0, !.pan_y = 0,
                       !.rotation_angle = 0, !.is_playing = FALSE,
                       !.timer_active = FALSE], 0)

_reset_state_after_load(s) ==
    IF frame_count(s) = 0 THEN s
    ELSE ViewReset(SliderRewound(SliderSetMaximum(s, frame_count(s) - 1)))

_set_source_info(s, info, file_path, is_reference) ==
    _reset_state_after_load(
        IF is_reference
        THEN [set_ref(s, info) EXCEPT !.ref_path = file_path]
        ELSE [set_comp(s, info) EXCEPT !.comp_path = file_path])

_load_source(s, file_path, is_reference) ==
    LET e == FS(file_path)
        info == IF e.kind = "file" THEN load_video(file_path)
                ELSE IF e.kind = "dir" THEN load_images_from_folder(file_path)
                ELSE None
    IN  IF ~e.exists THEN [s EXCEPT !.msg = "Path does not exist"]
        ELSE IF e.kind = "file" /\ Lower(e.suffix) \notin VideoExtensions
        THEN [s EXCEPT !.msg = "Unsupported file type"]
        ELSE IF IsNone(info) THEN [s EXCEPT !.msg = "Failed to load"]
        ELSE _set_source_info(s, Val(info), file_path, is_reference)

(***************************************************************************)
(* VideoComparatorApp: difference panel, zoom, pan, rotation, fit          *)
(***************************************************************************)
toggle_diff_view(s) ==
    on_frame_changed([s EXCEPT !.diff_visible = ~s.diff_visible], s.slider_value)

ZoomMin == [n |-> 1, d |-> 10]
ZoomMax == [n |-> 8, d |-> 1]

\* np.clip(self.zoom / 10, min=0.1, max=0.4)
zoom_delta(z) ==
    RMin(RMax(Rat(z.n, z.d * 10), [n |-> 1, d |-> 10]), [n |-> 4, d |-> 10])

\* the clamp has no upper bound
ClampZoom_nomax(z) == RMax(ZoomMin, z)

\* max(0.1, min(8.0, z))
ClampZoom(z) == RMax(ZoomMin, RMin(ZoomMax, z))

\* delta is the requested change in tenths; only its sign is used
on_zoom_requested(s, delta) ==
    LET step == IF delta > 0 THEN zoom_delta(s.zoom) ELSE RNeg(zoom_delta(s.zoom))
        s1 == [s EXCEPT !.old_zoom = Some(s.zoom),
                        !.zoom = ClampZoom(RAdd(s.zoom, step))]
    IN  on_frame_changed(s1, s.slider_value)

on_pan_requested(s, dx, dy) ==
    on_frame_changed([s EXCEPT !.pan_x = @ + dx, !.pan_y = @ + dy], s.slider_value)

_reset_pan_and_refresh(s) ==
    on_frame_changed([s EXCEPT !.pan_x = 0, !.pan_y = 0], s.slider_value)

rotate_left(s) ==
    _reset_pan_and_refresh([s EXCEPT !.rotation_angle = (@ - 90) % 360])

\* the angle is not reduced modulo 360
rotate_right_nowrap(s) ==
    _reset_pan_and_refresh([s EXCEPT !.rotation_angle = @ + 90])

rotate_right(s) ==
    _reset_pan_and_refresh([s EXCEPT !.rotation_angle = (@ + 90) % 360])

reset_rotation(s) == _reset_pan_and_refresh([s EXCEPT !.rotation_angle = 0])

\* min(out_w / ref_w, out_h / ref_h), as computed, with no clamp
FitZoom(out_w, out_h, info) == RMin(Rat(out_w, info.width), Rat(out_h, info.height))

fit_to_screen(s) ==
    LET info == Val(s.ref_info)
        out_h == IF s.rotation_angle \in {90, 270} THEN view_w ELSE view_h
        out_w == IF s.rotation_angle \in {90, 270} THEN view_h ELSE view_w
        s1 == [s EXCEPT !.zoom = FitZoom(out_w, out_h, info), !.pan_x = 0, !.pan_y = 0]
    IN  IF IsNone(s.ref_info) THEN s
        \* ZeroDivisionError
        ELSE IF info.width = 0 \/ info.height = 0 THEN Raise(s)
        ELSE on_frame_changed(s1, s.slider_value)

\* the probe's slot: the pixel label shows what get_pixel_info returned
on_pixel_hovered(s, x, y) == get_pixel_info(s, x, y)

(***************************************************************************)
(* VideoComparatorApp: playback and swap                                   *)
(***************************************************************************)
toggle_play(s) ==
    IF frame_count(s) = 0 THEN [s EXCEPT !.msg = "No videos/folders loaded"]
    ELSE IF s.is_playing
    THEN [s EXCEPT !.timer_active = FALSE, !.is_playing = FALSE]
    ELSE [s EXCEPT !.is_playing = TRUE, !.timer_active = TRUE]

\* the checkable button flips on a click and loop_enabled follows it
toggle_loop(s) == [s EXCEPT !.loop_enabled = ~s.loop_enabled]

\* the loop button is ignored: the tick at the last frame stops playback
advance_frame_noloop(s) ==
    IF s.slider_value + 1 >= frame_count(s)
    THEN [s EXCEPT !.is_playing = FALSE, !.timer_active = FALSE]
    ELSE SliderSetValue(s, s.slider_value + 1)

\* the tick at the last frame leaves playback running
advance_frame_nostop(s) ==
    IF s.slider_value + 1 >= frame_count(s) /\ ~s.loop_enabled THEN s
    ELSE SliderSetValue(s, IF s.slider_value + 1 >= frame_count(s) THEN 0
                           ELSE s.slider_value + 1)

advance_frame(s) ==
    LET current == s.slider_value
        total == frame_count(s)
        next_frame == current + 1
    IN  IF next_frame >= total /\ ~s.loop_enabled
        THEN [s EXCEPT !.is_playing = FALSE, !.timer_active = FALSE]
        ELSE SliderSetValue(s, IF next_frame >= total THEN 0 ELSE next_frame)

swap_left_right(s) ==
    LET s1 == [s EXCEPT !.ref_frames = s.comp_frames, !.comp_frames = s.ref_frames,
                        !.ref_info = s.comp_info, !.comp_info = s.ref_info,
                        !.ref_path = s.comp_path, !.comp_path = s.ref_path,
                        !.left_title = s.mid_title, !.mid_title = s.left_title]
    IN  IF frame_count(s1) > 0 THEN on_frame_changed(s1, s.slider_value) ELSE s1

(***************************************************************************)
(* The state machine.  Init is the state __init__ leaves; the viewers'     *)
(* size is whatever the window gives them, at least the minimum size; a    *)
(* run handles at most budget events; turns counts the clicks on Rotate    *)
(* Right that came one after the other, up to the present state.           *)
(***************************************************************************)
InitWith(vh, vw, events) ==
    /\ ref_frames = <<>>
    /\ comp_frames = <<>>
    /\ ref_info = None
    /\ comp_info = None
    /\ current_frame_idx = 0
    /\ ref_path = ""
    /\ comp_path = ""
    /\ zoom = [n |-> 1, d |-> 1]
    /\ pan_x = 0
    /\ pan_y = 0
    /\ rotation_angle = 0
    /\ is_playing = FALSE
    /\ loop_enabled = TRUE
    /\ timer_active = FALSE
    /\ diff_visible = TRUE
    /\ zoom_buffer_shape = None
    /\ zoom_buffer = <<>>
    /\ zoom_buffer_dims = None
    /\ slider_value = 0
    /\ slider_max = 0
    /\ left_title = "Reference Frame"
    /\ mid_title = "Comparison Frame (resized)"
    /\ view_h = vh
    /\ view_w = vw
    /\ crashed = FALSE
    /\ ev = "init"
    /\ req = <<>>
    /\ ret = None
    /\ diffs = 0
    /\ renders = <<>>
    /\ shown = <<>>
    /\ msg = ""
    /\ old_zoom = None
    /\ events_done = 0
    /\ budget = events
    /\ turns = 0

Init == InitWith(MinViewH, MinViewW, MaxEvents)

\* the handler named name, given the arguments args, ran from St and left
\* the session record t; an exception that leaves a slot ends the process
Assign(t, name, args) ==
    /\ ref_frames' = t.ref_frames
    /\ comp_frames' = t.comp_frames
    /\ ref_info' = t.ref_info
    /\ comp_info' = t.comp_info
    /\ current_frame_idx' = t.current_frame_idx
    /\ ref_path' = t.ref_path
    /\ comp_path' = t.comp_path
    /\ zoom' = t.zoom
    /\ pan_x' = t.pan_x
    /\ pan_y' = t.pan_y
    /\ rotation_angle' = t.rotation_angle
    /\ is_playing' = t.is_playing
    /\ loop_enabled' = t.loop_enabled
    /\ timer_active' = t.timer_active
    /\ diff_visible' = t.diff_visible
    /\ zoom_buffer_shape' = t.zoom_buffer_shape
    /\ zoom_buffer' = t.zoom_buffer
    /\ zoom_buffer_dims' = t.zoom_buffer_dims
    /\ slider_value' = t.slider_value
    /\ slider_max' = t.slider_max
    /\ left_title' = t.left_title
    /\ mid_title' = t.mid_title
    /\ crashed' = t.exc
    /\ ev' = name
    /\ req' = args
    /\ ret' = t.ret
    /\ diffs' = t.diffs
    /\ renders' = t.renders
    /\ shown' = t.shown
    /\ msg' = t.msg
    /\ old_zoom' = t.old_zoom
    /\ turns' = IF name = "rotate_right" THEN turns + 1 ELSE 0
    /\ UNCHANGED << view_h, view_w, budget >>

\* one of the events a run is limited to
Commit(t, name, args) ==
    /\ events_done < budget
    /\ events_done' = events_done + 1
    /\ Assign(t, name, args)

\* a handler of the application: the triplet it fetched is its own local
Handled(t, name, args) == Commit([t EXCEPT !.ret = None], name, args)

LoadablePaths == {"red40.mp4", "blue100.avi", "empty.mkv", "mixed"}
FailingPaths == {"nopics", "broken.mov", "notes.txt", "missing.mp4"}
AppPaths == LoadablePaths \cup FailingPaths

\* an arrow key on each axis and two long drags
PanInputs ==
    { << PanKeyStep, 0 >>, << 0, -PanKeyStep >>, << 1000, 0 >>, << 0, -1000 >> }

\* requested zoom changes, in tenths
ZoomInputs == {-10000, 0, 1}

LoadFrom(paths) ==
    /\ ~crashed
    /\ \E path \in paths, is_reference \in BOOLEAN :
          Handled(_load_source(St, path, is_reference), "load",
                  << path, IF is_reference THEN "ref" ELSE "comp" >>)

LoadSource == LoadFrom(AppPaths)

ToggleDiffView == ~crashed /\ Handled(toggle_diff_view(St), "toggle_diff", <<>>)

\* the user moves the slider to another position
SliderMoved ==
    /\ ~crashed
    /\ \E v \in 0..slider_max :
          v # slider_value /\ Handled(SliderSetValue(St, v), "slider", << v >>)

ZoomRequested ==
    /\ ~crashed
    /\ \E delta \in ZoomInputs :
          Handled(on_zoom_requested(St, delta), "zoom", << delta >>)

PanRequested ==
    /\ ~crashed
    /\ \E d \in PanInputs : Handled(on_pan_requested(St, d[1], d[2]), "pan", d)

RotateLeft == ~crashed /\ Handled(rotate_left(St), "rotate_left", <<>>)

RotateRight == ~crashed /\ Handled(rotate_right(St), "rotate_right", <<>>)

ResetRotation == ~crashed /\ Handled(reset_rotation(St), "reset_rotation", <<>>)

FitToScreen == ~crashed /\ Handled(fit_to_screen(St), "fit", <<>>)

TogglePlay == ~crashed /\ Handled(toggle_play(St), "toggle_play", <<>>)

ToggleLoop == ~crashed /\ Handled(toggle_loop(St), "toggle_loop", <<>>)

\* the playback timer fires
TimerTick == ~crashed /\ timer_active /\ Handled(advance_frame(St), "tick", <<>>)

SwapLeftRight == ~crashed /\ Handled(swap_left_right(St), "swap", <<>>)

\* every event of the application
Next ==
    \/ LoadSource
    \/ ToggleDiffView
    \/ SliderMoved
    \/ ZoomRequested
    \/ PanRequested
    \/ RotateLeft
    \/ RotateRight
    \/ ResetRotation
    \/ FitToScreen
    \/ TogglePlay
    \/ ToggleLoop
    \/ TimerTick
    \/ SwapLeftRight

Spec == Init /\ [][Next]_vars

(***************************************************************************)
(* The viewport scenario: sources that load, and the events that move the  *)
(* viewport, in a viewer of the minimum size or a square one.              *)
(***************************************************************************)
Viewers == { << MinViewH, MinViewW >>, << MinViewW, MinViewW >> }

InitView == \E v \in Viewers : InitWith(v[1], v[2], MaxViewEvents)

\* two videos of different resolutions
ViewPaths == {"red40.mp4", "blue100.avi"}

LoadView == LoadFrom(ViewPaths)

NextView ==
    \/ LoadView
    \/ SliderMoved
    \/ ZoomRequested
    \/ PanRequested
    \/ RotateLeft
    \/ RotateRight
    \/ ResetRotation
    \/ FitToScreen
    \/ ToggleDiffView
    \/ SwapLeftRight

SpecView == InitView /\ [][NextView]_vars

(***************************************************************************)
(* The frame-store scenario: a caller that drives the VideoComparator and  *)
(* the frame-change slot directly and catches what they raise.             *)
(***************************************************************************)
StorePaths == LoadablePaths \cup {"red4.mp4", "blue4.mp4"}

LoadInfo(path) ==
    IF FS(path).kind = "file" THEN load_video(path) ELSE load_images_from_folder(path)

IndexInputs == {-1, 0, 1, 3, 9, 20}

CallSetRef ==
    \E path \in StorePaths : Commit(set_ref(St, Val(LoadInfo(path))), "set_ref", <<>>)

CallSetComp ==
    \E path \in StorePaths : Commit(set_comp(St, Val(LoadInfo(path))), "set_comp", <<>>)

CallGetFrameTriplet ==
    \E idx \in IndexInputs, compute_diff \in BOOLEAN :
        Commit(get_frame_triplet(St, idx, compute_diff), "get_frame_triplet",
               << idx, IF compute_diff THEN 1 ELSE 0 >>)

CallOnFrameChanged ==
    \E idx \in IndexInputs :
        Commit(on_frame_changed(St, idx), "on_frame_changed", << idx >>)

CallToggleDiffView == Commit(toggle_diff_view(St), "toggle_diff", <<>>)

\* a pixel inside every frame, one inside the larger frames only, one outside
PixelInputs == { << 0, 0 >>, << 50, 50 >>, << -1, 0 >> }

CallGetPixelInfo ==
    \E q \in PixelInputs : Commit(get_pixel_info(St, q[1], q[2]), "get_pixel_info", q)

NextStore ==
    \/ CallSetRef
    \/ CallSetComp
    \/ CallGetFrameTriplet
    \/ CallOnFrameChanged
    \/ CallToggleDiffView
    \/ CallGetPixelInfo

InitStore == InitWith(MinViewH, MinViewW, MaxCalls)

SpecStore == InitStore /\ [][NextStore]_vars

(***************************************************************************)
(* The odd-size scenario: frames of odd height and width, a one-pixel      *)
(* frame and a larger even one, under the events that change what a        *)
(* render crops.                                                           *)
(***************************************************************************)
EdgePaths == {"odd.mp4", "dot", "blue100.avi"}

LoadEdge == LoadFrom(EdgePaths)

NextEdge ==
    \/ LoadEdge
    \/ ZoomRequested
    \/ PanRequested
    \/ RotateRight
    \/ FitToScreen
    \/ SwapLeftRight

InitEdge == InitWith(MinViewH, MinViewW, MaxEdgeEvents)

SpecEdge == InitEdge /\ [][NextEdge]_vars

(***************************************************************************)
(* The probe scenario: the mouse moves over a label of some size that      *)
(* shows a pixmap of some size, or none.  A case is the label's            *)
(* << width, height >> and the pixmap; on these cases the double           *)
(* arithmetic of _emit_pixel yields the integers the exact quotients give. *)
(***************************************************************************)
ProbeCases ==
    { << << 400, 100 >>, << 200, 100 >> >>, << << 400, 100 >>, << 100, 100 >> >>,
      << << 400, 100 >>, << 300, 400 >> >>, << << 400, 300 >>, << 400, 300 >> >>,
      << << 400, 300 >>, << 300, 400 >> >>, << << 400, 300 >>, << 100, 100 >> >>,
      << << 400, 300 >>, << 200, 100 >> >>, << << 400, 300 >>, << 800, 600 >> >>,
      << << 400, 300 >>, << 0, 0 >> >>, << << 400, 300 >>, None >> }

ProbeXs == {-1, 0, 49, 50, 87, 88, 99, 100, 150, 200, 299, 300, 312, 313, 349, 350, 399}
ProbeYs == {0, 37, 50, 99, 262, 299, 300}

MouseMoved ==
    \E c \in ProbeCases, px \in ProbeXs, py \in ProbeYs :
        Commit([St EXCEPT !.ret = mouseMoveEvent(px, py, c[2], c[1][1], c[1][2])],
               "hover", << px, py, c[2], c[1] >>)

NextProbe == MouseMoved

InitProbe == InitWith(MinViewH, MinViewW, MaxProbes)

SpecProbe == InitProbe /\ [][NextProbe]_vars

(***************************************************************************)
(* The stored-frames scenario: two videos of different resolutions under   *)
(* the events that read the stored frames: frame changes, renders at       *)
(* several zooms and rotations, the probe, playback and swap.              *)
(***************************************************************************)
LoadFrames == LoadFrom(ViewPaths)

\* a viewer reports the image pixel under the mouse
PixelHovered ==
    /\ ~crashed
    /\ \E q \in PixelInputs :
          Handled(on_pixel_hovered(St, q[1], q[2]), "pixel_hovered", q)

NextFrames ==
    \/ LoadFrames
    \/ SliderMoved
    \/ ZoomRequested
    \/ RotateRight
    \/ TogglePlay
    \/ TimerTick
    \/ SwapLeftRight
    \/ PixelHovered

InitFrames == InitWith(MinViewH, MinViewW, MaxFrameEvents)

SpecFrames == InitFrames /\ [][NextFrames]_vars

(***************************************************************************)
(* The playback scenario: a few user events (loads of a three-frame video, *)
(* a two-frame video and a video that yields no frame, play/pause, the     *)
(* loop button, the slider, swap) and, while the playback timer is active, *)
(* its timeouts, which are not limited and keep coming.                    *)
(***************************************************************************)
PlayPaths == {"red40.mp4", "blue100.avi", "empty.mkv"}

LoadPlay == LoadFrom(PlayPaths)

\* playback_timer.timeout
PlaybackTick ==
    /\ ~crashed
    /\ timer_active
    /\ Assign([advance_frame(St) EXCEPT !.ret = None], "tick", <<>>)
    /\ UNCHANGED events_done

NextPlay ==
    \/ LoadPlay
    \/ TogglePlay
    \/ ToggleLoop
    \/ SliderMoved
    \/ SwapLeftRight
    \/ PlaybackTick

InitPlay == InitWith(MinViewH, MinViewW, MaxPlayEvents)

\* a timeout changes the state: it stops playback, or moves the slider, or
\* is the first one after another event
TickEnabled ==
    /\ ~crashed
    /\ timer_active
    /\ \/ ~loop_enabled
       \/ ev # "tick"
       \/ slider_value # 0
       \/ frame_count(St) > 1 /\ slider_max > 0

\* a step of PlaybackTick, the one event that leaves events_done alone
Ticked == ev' = "tick" /\ events_done' = events_done

\* an active QTimer keeps firing: weak fairness of PlaybackTick,
\* WF_vars(PlaybackTick), with its enabling condition written as TickEnabled
TickFairness == []<>(~TickEnabled) \/ []<><<Ticked>>_vars

SpecPlay == InitPlay /\ [][NextPlay]_vars /\ TickFairness

(***************************************************************************)
(* The difference scenario: the difference of two 4x4 frames of one solid  *)
(* colour each, for colours at several Chebyshev distances.                *)
(***************************************************************************)
DiffPixels == { << a, b, 0 >> : a \in {0, 65, 128, 255}, b \in {0, 100, 255} }

CallComputeDiff ==
    \E p \in DiffPixels, q \in DiffPixels :
        Commit([St EXCEPT !.ret = Some(ComputeDiff(Raster("a", 0, 4, 4, p),
                                                  Raster("b", 0, 4, 4, q)))],
               "compute_diff", << p, q >>)

NextDiff == CallComputeDiff

InitDiff == InitWith(MinViewH, MinViewW, MaxDiffs)

SpecDiff == InitDiff /\ [][NextDiff]_vars

(***************************************************************************)
(* The sampling scenario: videos of many lengths are loaded on either      *)
(* side.                                                                   *)
(***************************************************************************)
ClipPaths == DOMAIN ClipFrames

LoadClip == LoadFrom(ClipPaths)

NextSample == LoadClip

InitSample == InitWith(MinViewH, MinViewW, MaxLoads)

SpecSample == InitSample /\ [][NextSample]_vars

(***************************************************************************)
(* Properties.                                                             *)
(***************************************************************************)
\* C1: after any sequence of set_ref, set_comp (as the loads drive them) and
\* swap_left_right, frame_count() is min(len(ref_frames), len(comp_frames)),
\* and it is 0 whenever either sequence is absent or empty.
C1_FrameCountIsMin ==
    /\ frame_count(St) = Min2(Len(ref_frames), Len(comp_frames))
    /\ (ref_frames = <<>> \/ comp_frames = <<>>) => frame_count(St) = 0

\* a swap has left the longer sequence on the reference side
C1_Witness ==
    /\ ev = "swap"
    /\ Len(ref_frames) = 3
    /\ Len(comp_frames) = 2
    /\ frame_count(St) = 2

\* C2: for every index i (negative, in range, beyond range) and
\* frame_count() = n > 0, get_frame_triplet(i, _) returns the reference and
\* the comparison frame of position clamp(i, 0, n - 1) (the comparison frame
\* as stored or resized to the reference's resolution) and sets
\* current_frame_idx to that position; on 10-frame sequences
\* get_frame_triplet(20, true) gives the triplet and the cursor of
\* get_frame_triplet(9, true).
C2_ClampedTriplet ==
    (ev = "get_frame_triplet" /\ frame_count(St) > 0) =>
        LET n == frame_count(St)
            c == IF req[1] < 0 THEN 0 ELSE IF req[1] > n - 1 THEN n - 1 ELSE req[1]
            at9 == get_frame_triplet(St, 9, TRUE)
        IN  /\ current_frame_idx = c
            /\ Len(ret) = 3
            /\ ret[1] = Some(ref_frames[c + 1])
            /\ ret[2] \in { Some(comp_frames[c + 1]),
                            Some(Resize(comp_frames[c + 1], Val(ref_info).width,
                                        Val(ref_info).height)) }
            /\ (n = 10 /\ req = << 20, 1 >>) =>
                   (ret = at9.ret /\ current_frame_idx = at9.current_frame_idx)

\* C3: in every reachable state with frame_count() > 0 the cursor satisfies
\* 0 <= current_frame_idx <= frame_count() - 1, so a read at the cursor
\* indexes an existing frame of both sequences.
C3_CursorInRange ==
    frame_count(St) > 0 =>
        /\ 0 <= current_frame_idx
        /\ current_frame_idx <= frame_count(St) - 1
        /\ current_frame_idx + 1 \in DOMAIN ref_frames
        /\ current_frame_idx + 1 \in DOMAIN comp_frames

\* playback has carried the cursor to the last common frame
C3_Witness ==
    /\ ev = "tick"
    /\ frame_count(St) > 1
    /\ current_frame_idx = frame_count(St) - 1

\* C4: when frame_count() is 0, get_frame_triplet returns (None, None, None)
\* for every index and every compute_diff and leaves current_frame_idx as it
\* was, and on_frame_changed then renders nothing, shows no raster and
\* changes neither zoom, pan, rotation nor the cursor.
C4_EmptyStoreIsInert ==
    [][ frame_count(St) = 0 =>
          /\ ev' = "get_frame_triplet" =>
                 /\ ret' = << None, None, None >>
                 /\ current_frame_idx' = current_frame_idx
          /\ ev' = "on_frame_changed" =>
                 /\ ret' = << None, None, None >>
                 /\ renders' = <<>>
                 /\ shown' = <<>>
                 /\ ~crashed'
                 /\ UNCHANGED << zoom, pan_x, pan_y, rotation_angle,
                                 zoom_buffer_shape, current_frame_idx >> ]_vars

\* the slot ran on a store that lost its comparison frames with the cursor off 0
C4_Witness ==
    /\ ev = "on_frame_changed"
    /\ frame_count(St) = 0
    /\ ref_frames # <<>>
    /\ current_frame_idx > 0
    /\ ret = << None, None, None >>

\* C5: the difference raster is computed if and only if it is needed: while
\* diff_visible is false no event (frame change, zoom, pan, rotation, tick,
\* load, swap) computes or renders a diff frame, and when toggle_diff_view
\* makes the diff visible again with frames loaded, its refresh computes it.
C5_DiffOnlyWhenNeeded ==
    /\ (~diff_visible /\ ev # "init") =>
           (diffs = 0 /\ \A i \in DOMAIN shown : shown[i] # "right")
    /\ (ev = "toggle_diff" /\ diff_visible /\ frame_count(St) > 0) => diffs = 1

\* C6: for two frames of one size, the diff of identical frames is (0, 0, 255)
\* at every pixel and the diff of frames at Chebyshev distance 255 is
\* (255, 0, 0) at every pixel; with ten solid-red and ten solid-blue 4x4
\* frames loaded, get_frame_triplet(3, true) yields a 4x4 diff that is
\* (255, 0, 0) throughout.
C6_DiffExtremes ==
    (ev = "get_frame_triplet" /\ Len(ret) = 3 /\ ~IsNone(ret[3])) =>
        LET a == Val(ret[1])
            b == Val(ret[2])
            d == Val(ret[3])
        IN  /\ a.rgb = b.rgb => d.rgb = << 0, 0, 255 >>
            /\ Chebyshev(a.rgb, b.rgb) = 255 => d.rgb = << 255, 0, 0 >>
            /\ d.h = a.h /\ d.w = a.w
            /\ ( /\ ref_frames = Val(load_video("red4.mp4")).frames
                 /\ comp_frames = Val(load_video("blue4.mp4")).frames
                 /\ req = << 3, 1 >> ) =>
                   (d.rgb = << 255, 0, 0 >> /\ d.h = 4 /\ d.w = 4)

\* the end-to-end scenario: frame 3 of ten red against ten blue 4x4 frames
C6_Witness ==
    /\ ev = "get_frame_triplet"
    /\ req = << 3, 1 >>
    /\ ref_frames = Val(load_video("red4.mp4")).frames
    /\ comp_frames = Val(load_video("blue4.mp4")).frames
    /\ Len(ret) = 3
    /\ ret[3] # None
    /\ current_frame_idx = 3

InZoomRange(z) == RLe(ZoomMin, z) /\ RLe(z, ZoomMax)

\* C7: for every current zoom in [0.1, 8.0] and every requested delta, the
\* zoom stored after on_zoom_requested(delta) lies in [0.1, 8.0].
C7_ZoomRequestClamped ==
    (ev = "zoom" /\ InZoomRange(Val(old_zoom))) => InZoomRange(zoom)

\* a zoom-in from inside the range was cut back to 8.0
C7_Witness ==
    /\ ev = "zoom"
    /\ req[1] > 0
    /\ InZoomRange(Val(old_zoom))
    /\ RLt(ZoomMax, RAdd(Val(old_zoom), zoom_delta(Val(old_zoom))))
    /\ zoom = ZoomMax

\* C8: in every reachable state of the application the viewport zoom
\* satisfies 0.1 <= zoom <= 8.0, for every reference resolution and every
\* viewer size.
C8_ZoomAlwaysInRange == InZoomRange(zoom)

Nearest(x, lo, hi) == IF x < lo THEN lo ELSE IF x > hi THEN hi ELSE x

\* along one axis of a render whose crop is no larger than the frame: the pan
\* written back lies in [-halfImg + crop/2, halfImg - crop/2], it is the
\* bound nearest to the pan the render was given, and the crop lies inside
\* the frame
AxisClamped(pin, pout, dim, crop, start, end) ==
    crop <= dim =>
        /\ -(dim \div 2) + crop \div 2 <= pout
        /\ pout <= dim \div 2 - crop \div 2
        /\ pout = Nearest(pin, -(dim \div 2) + crop \div 2, dim \div 2 - crop \div 2)
        /\ 0 <= start
        /\ end <= dim
        /\ end - start = crop

\* C9: whenever a pair is loaded and the crop window is no larger than the
\* rotated frame in an axis, after every event that re-renders the stored
\* pan for that axis lies in [-halfImg + crop/2, halfImg - crop/2], an
\* out-of-range requested pan is replaced by the nearest bound and written
\* back to pan_x/pan_y, and the crop rectangle lies inside the rotated frame.
C9_PanClamped ==
    [][ /\ \A i \in DOMAIN renders' :
              /\ AxisClamped(renders'[i].pan_in[1], renders'[i].pan_out[1],
                             renders'[i].w, renders'[i].crop_w,
                             renders'[i].w_start, renders'[i].w_end)
              /\ AxisClamped(renders'[i].pan_in[2], renders'[i].pan_out[2],
                             renders'[i].h, renders'[i].crop_h,
                             renders'[i].h_start, renders'[i].h_end)
        /\ renders' # <<>> =>
              << pan_x', pan_y' >> = renders'[Len(renders')].pan_out
        /\ (ev' = "pan" /\ renders' # <<>>) =>
              renders'[1].pan_in = << pan_x + req'[1], pan_y + req'[2] >>
      ]_vars

\* the example: a 100x100 frame, crop 50x50, a pan of 1000 along x becomes 25
C9_Witness ==
    /\ ev = "pan"
    /\ req = << 1000, 0 >>
    /\ Len(renders) = 3
    /\ \A i \in DOMAIN renders :
          /\ renders[i].h = 100 /\ renders[i].w = 100
          /\ renders[i].crop_h = 50 /\ renders[i].crop_w = 50
    /\ renders[1].pan_in[1] >= 1000
    /\ pan_x = 25

\* C10: in a render whose crop window is larger than the rotated frame in an
\* axis, the stored pan for that axis is forced to 0 whatever pan was
\* requested.
C10_DegeneratePanZero ==
    \A i \in DOMAIN renders :
        /\ renders[i].crop_w > renders[i].w =>
               (renders[i].pan_out[1] = 0 /\ (i = Len(renders) => pan_x = 0))
        /\ renders[i].crop_h > renders[i].h =>
               (renders[i].pan_out[2] = 0 /\ (i = Len(renders) => pan_y = 0))

\* a render copied its crop into the scratch buffer
CopyDone(r) ==
    /\ SliceFits(r.h, r.crop_h, r.h_start, r.h_end)
    /\ SliceFits(r.w, r.crop_w, r.w_start, r.w_end)

\* along one axis whose crop is larger than the frame: the copy takes every
\* row (column) of the frame, as many as the slot holds, and the slot leaves
\* equal margins on its two sides
AxisCentred(dim, crop, src, dst) ==
    crop > dim =>
        /\ src = << 0, dim >>
        /\ dst[2] - dst[1] = dim
        /\ dst[1] = crop - dst[2]

\* C11: in a render whose crop window is larger than the rotated frame in an
\* axis, the scratch buffer after the copy holds every row/column of the
\* frame along that axis, for even and odd dimensions alike, with equal
\* zeroed margins on the two sides and zeros everywhere outside the copy.
C11_DegenerateCopy ==
    \A i \in DOMAIN renders :
        CopyDone(renders[i]) =>
            /\ AxisCentred(renders[i].h, renders[i].crop_h,
                           SrcRows(renders[i]), DstRows(renders[i]))
            /\ AxisCentred(renders[i].w, renders[i].crop_w,
                           SrcCols(renders[i]), DstCols(renders[i]))
            /\ (renders[i].crop_h > renders[i].h \/ renders[i].crop_w > renders[i].w)
                   => renders[i].under = <<>>

\* every element of slot b is an element of slot a
Covers(a, b) ==
    \/ b.rows[1] = b.rows[2]
    \/ b.cols[1] = b.cols[2]
    \/ /\ a.rows[1] <= b.rows[1] /\ b.rows[2] <= a.rows[2]
       /\ a.cols[1] <= b.cols[1] /\ b.cols[2] <= a.cols[2]

\* C12: a render never shows pixels of an earlier render through the reused
\* scratch buffer: whatever the buffer held before the call, every slot that
\* is still written when the copy is made lies under the copied region, so
\* every pixel the copy does not overwrite is zero; after the handler the
\* buffer holds nothing outside the last copy.
C12_NoStalePixels ==
    /\ \A i \in DOMAIN renders :
          \A j \in DOMAIN renders[i].under :
              Covers(Slot(renders[i]), renders[i].under[j])
    /\ \A k \in DOMAIN zoom_buffer :
          Covers(zoom_buffer[Len(zoom_buffer)], zoom_buffer[k])

\* a call kept the array of the call before it, which had filled a region
\* that this call's copy leaves uncovered
C12_Witness ==
    \E i \in DOMAIN renders :
        /\ renders[i].reused
        /\ renders[i].before # <<>>
        /\ ~Covers(Slot(renders[i]), renders[i].before[1])
        /\ CopyDone(renders[i])
        /\ zoom_buffer = << Slot(renders[Len(renders)]) >>

\* what a render shows: the rotated frame, the crop shape, the region copied
\* and where, and what the scratch buffer held under the copy
RasterOf(r) ==
    [img |-> r.img, crop |-> << r.crop_h, r.crop_w >>,
     src |-> << SrcRows(r), SrcCols(r) >>, dst |-> Slot(r), under |-> r.under]

RastersOf(rs) == [i \in DOMAIN rs |-> RasterOf(rs[i])]

\* the session with the history of the running handler emptied
Fresh(s) == [s EXCEPT !.renders = <<>>, !.shown = <<>>, !.diffs = 0]

\* C13: from every state of the session, four rotate_right and four
\* rotate_left each bring rotation_angle back to its value, which lies in
\* {0, 90, 180, 270}; the refresh of the fourth rotation renders the rasters
\* that a refresh at pan 0 renders before the rotations, at the same zoom;
\* and rotate_left followed by rotate_right restores rotation_angle.
C13_FourRotations ==
    ~crashed =>
        /\ rotation_angle \in {0, 90, 180, 270}
        /\ rotate_right(rotate_right(rotate_right(rotate_right(St)))).rotation_angle
               = rotation_angle
        /\ rotate_left(rotate_left(rotate_left(rotate_left(St)))).rotation_angle
               = rotation_angle
        /\ rotate_right(rotate_left(St)).rotation_angle = rotation_angle
        /\ RastersOf(rotate_right(
                         Fresh(rotate_right(rotate_right(rotate_right(St))))).renders)
               = RastersOf(_reset_pan_and_refresh(St).renders)
        /\ RastersOf(rotate_left(
                         Fresh(rotate_left(rotate_left(rotate_left(St))))).renders)
               = RastersOf(_reset_pan_and_refresh(St).renders)
        /\ rotate_right(rotate_right(rotate_right(rotate_right(St)))).zoom = zoom

\* Rotate Right was clicked four times in a row on a loaded pair of frames
\* that are not square
C13_Witness ==
    /\ ev = "rotate_right"
    /\ turns = 4
    /\ rotation_angle = 0
    /\ Len(renders) = 3
    /\ renders[1].h # renders[1].w

\* twice the numerator of the exact image coordinate along one axis, for the
\* scale sn / sd: the coordinate is TwiceNum / (2 * sn)
TwiceNum(pos, lbl, img, sn, sd) == 2 * sd * pos - lbl * sd + img * sn

\* the point lies on the displayed raster along one axis
OnRaster(pos, lbl, img, sn, sd) ==
    0 <= TwiceNum(pos, lbl, img, sn, sd) /\ TwiceNum(pos, lbl, img, sn, sd) < 2 * sn * img

\* the probe's answer for the scale sn / sd
ProbeLaw(px, py, w, h, lw, lh, sn, sd) ==
    /\ ret # None =>
           /\ 0 <= ret[1][1] /\ ret[1][1] < w
           /\ 0 <= ret[1][2] /\ ret[1][2] < h
           /\ ret[1][1] = TwiceNum(px, lw, w, sn, sd) \div (2 * sn)
           /\ ret[1][2] = TwiceNum(py, lh, h, sn, sd) \div (2 * sn)
    /\ ~(OnRaster(px, lw, w, sn, sd) /\ OnRaster(py, lh, h, sn, sd)) => ret = None

\* C14: for every point of the label, raster size (w, h) with w, h > 0 and
\* label size, the probe uses scale = min(labelW / w, labelH / h) and the
\* offsets (label - raster * scale) / 2, emits (ix, iy) only with
\* 0 <= ix < w and 0 <= iy < h and emits nothing for a point of the
\* letterbox margin; a 200x100 raster in a 400x100 label maps (150, 50) to
\* (50, 50) and gives no hit at (50, 50).
C14_ProbeMapping ==
    (ev = "hover" /\ req[3] # None /\ req[3] # << 0, 0 >>) =>
        /\ IF req[4][1] * req[3][2] <= req[4][2] * req[3][1]
           THEN ProbeLaw(req[1], req[2], req[3][1], req[3][2], req[4][1], req[4][2],
                         req[4][1], req[3][1])
           ELSE ProbeLaw(req[1], req[2], req[3][1], req[3][2], req[4][1], req[4][2],
                         req[4][2], req[3][2])
        /\ req = << 150, 50, << 200, 100 >>, << 400, 100 >> >> => ret = Some(<< 50, 50 >>)
        /\ req = << 50, 50, << 200, 100 >>, << 400, 100 >> >> => ret = None

\* the example's hit
C14_Witness ==
    /\ ev = "hover"
    /\ req = << 150, 50, << 200, 100 >>, << 400, 100 >> >>
    /\ ret = Some(<< 50, 50 >>)

\* C15: in every reachable state, get_pixel_info(x, y) does not fail: it
\* returns the no-result sentinel when no reference is loaded, when the pair
\* has no frames, or when (x, y) is outside [0, refWidth) x [0, refHeight),
\* and otherwise the RGB triples of the reference frame and of the resized
\* comparison frame at the cursor.
C15_PixelInfoTotal ==
    ev = "get_pixel_info" =>
        /\ ~crashed
        /\ IF \/ ref_info = None
              \/ frame_count(St) = 0
              \/ ~(/\ 0 <= req[1] /\ req[1] < Val(ref_info).width
                    /\ 0 <= req[2] /\ req[2] < Val(ref_info).height)
           THEN ret = None
           ELSE ret = Some([x |-> req[1], y |-> req[2],
                            img1 |-> ref_frames[current_frame_idx + 1].rgb,
                            img2 |-> Resized(comp_frames[current_frame_idx + 1],
                                             Val(ref_info)).rgb])

\* the source at path yields no valid frame: a video whose reads all fail,
\* a folder with no image that can be read
NoValidFrames(path) ==
    \/ FS(path).kind = "file" /\ FS(path).decoded = <<>>
    \/ /\ FS(path).kind = "dir"
       /\ \A i \in DOMAIN FS(path).listing :
              ~(IsImageFile(FS(path).listing[i]) /\ IsReadable(FS(path).listing[i]))

\* a load of path fails
LoadFails(path) ==
    \/ ~FS(path).exists
    \/ FS(path).kind = "file" /\ ~FS(path).opened
    \/ FS(path).kind = "file" /\ Lower(FS(path).suffix) \notin VideoExtensions
    \/ NoValidFrames(path)

\* C16: a load that fails (path that does not exist, source that cannot be
\* opened, unsupported file type, source with zero valid frames) is reported
\* as a load failure and leaves both sequences, their metadata, the cursor,
\* the viewport and the playback state as they were.
C16_FailedLoadIsInert ==
    [][ (ev' = "load" /\ LoadFails(req'[1])) =>
          /\ msg' # ""
          /\ ~crashed'
          /\ UNCHANGED << ref_frames, comp_frames, ref_info, comp_info,
                          ref_path, comp_path, current_frame_idx,
                          zoom, pan_x, pan_y, rotation_angle,
                          is_playing, loop_enabled, timer_active >> ]_vars

\* C17: replacing the reference or the comparison sequence (set_ref,
\* set_comp, as a successful load drives them) resets current_frame_idx to 0,
\* whatever it was and whether or not the other sequence is loaded.
C17_ReplaceResetsCursor ==
    ev \in {"set_ref", "set_comp"} => current_frame_idx = 0

\* C18: whenever get_frame_triplet returns a pair (frame_count() > 0), the
\* comparison frame was resized if and only if its native (height, width)
\* differs from the reference's declared (height, width), and is otherwise
\* the stored frame itself; either way it has exactly the declared width and
\* height, and the reference frame is the stored one, unchanged.
C18_ResizeIffDiffers ==
    (ev = "get_frame_triplet" /\ ~crashed /\ frame_count(St) > 0) =>
        /\ ret[1] = Some(ref_frames[current_frame_idx + 1])
        /\ IF << comp_frames[current_frame_idx + 1].h,
                 comp_frames[current_frame_idx + 1].w >>
                # << Val(ref_info).height, Val(ref_info).width >>
           THEN /\ Val(ret[2]).rs
                /\ ret[2] = Some(Resize(comp_frames[current_frame_idx + 1],
                                        Val(ref_info).width, Val(ref_info).height))
           ELSE ret[2] = Some(comp_frames[current_frame_idx + 1])
        /\ Val(ret[2]).h = Val(ref_info).height
        /\ Val(ret[2]).w = Val(ref_info).width

\* a 100x100 comparison frame came back resized to the 40x40 of the reference
C18_Witness ==
    /\ ev = "get_frame_triplet"
    /\ ~crashed
    /\ frame_count(St) > 0
    /\ comp_frames[current_frame_idx + 1].h = 100
    /\ Val(ref_info).height = 40
    /\ Val(ret[2]).rs
    /\ Val(ret[2]).h = 40 /\ Val(ret[2]).w = 40

\* a sequence as a load returns it: count frames, all of the declared size
Uniform(info) ==
    /\ info.count = Len(info.frames)
    /\ \A i \in DOMAIN info.frames :
          /\ info.frames[i].h = info.height
          /\ info.frames[i].w = info.width

\* C19: every sequence a load accepted holds count frames, each of the
\* sequence's declared width and height; so the two operands of the
\* difference in get_frame_triplet have the same dimensions and the
\* difference is computed.
C19_UniformSequences ==
    /\ ref_info # None => Uniform(Val(ref_info))
    /\ comp_info # None => Uniform(Val(comp_info))
    /\ (ev = "get_frame_triplet" /\ req[2] = 1 /\ frame_count(St) > 0) =>
           /\ ~crashed
           /\ << Val(ret[1]).h, Val(ret[1]).w >> = << Val(ret[2]).h, Val(ret[2]).w >>

\* the length of a half-open interval
Span(iv) == iv[2] - iv[1]

\* along one axis the slice bounds lie inside their arrays and the region
\* read is as long as the slot written
AxisFits(dim, crop, start, end, src, dst) ==
    /\ 0 <= start /\ start <= end /\ end <= dim
    /\ 0 <= crop \div 2 - (end - start) \div 2
    /\ crop \div 2 + (end - start) \div 2 <= crop
    /\ Span(src) = Span(dst)

\* C20: for every frame size (even or odd, smaller or larger than the crop in
\* either axis), rotation, zoom and requested pan the render completes
\* without raising: the region sliced from the rotated frame has the height
\* and width of the slot it is assigned to, and both lie inside their arrays.
C20_RenderNeverRaises ==
    /\ ~crashed
    /\ \A i \in DOMAIN renders :
          /\ AxisFits(renders[i].h, renders[i].crop_h, renders[i].h_start,
                      renders[i].h_end, SrcRows(renders[i]), DstRows(renders[i]))
          /\ AxisFits(renders[i].w, renders[i].crop_w, renders[i].w_start,
                      renders[i].w_end, SrcCols(renders[i]), DstCols(renders[i]))
          /\ renders[i].crop_h > 0 /\ renders[i].crop_w > 0

\* C21: at every pixel of the diff raster, with d the maximum over the three
\* channels of the absolute difference, the output is (d, 0, 255 - d), so
\* red + blue = 255; and the diff of (a, b) is the diff of (b, a).
C21_DiffFormula ==
    ev = "compute_diff" =>
        /\ Chebyshev(req[1], req[2]) \in 0..255
        /\ Val(ret).rgb = << Chebyshev(req[1], req[2]), 0,
                             255 - Chebyshev(req[1], req[2]) >>
        /\ Val(ret).rgb[1] + Val(ret).rgb[3] = 255
        /\ Val(ret) = ComputeDiff(Raster("a", 0, 4, 4, req[2]),
                                  Raster("b", 0, 4, 4, req[1]))

\* the sequence info keeps of n decoded frames: every stride-th one from
\* position 0, in decode order
SampledFrom(info, decoded, stride) ==
    /\ info.count = Len(info.frames)
    /\ Len(info.frames) = (Len(decoded) - 1) \div stride + 1
    /\ \A j \in DOMAIN info.frames :
          /\ (j - 1) * stride + 1 \in DOMAIN decoded
          /\ info.frames[j] = BGR2RGB(decoded[(j - 1) * stride + 1])

\* about the sampling target: the target and a tenth more
AboutTarget(count) == 10 * count <= 11 * SampleTarget

\* C22: when a video is decoded the stride is
\* max(1, totalDecodedFrames // 300), the frames kept are the decoded frames
\* at positions 0, stride, 2 * stride, ... in their temporal order, and at
\* most about 300 frames are kept whatever the length of the video.
C22_SamplingStride ==
    (ev = "load" /\ req[1] \in ClipPaths) =>
        /\ SampledFrom(Val(IF req[2] = "ref" THEN ref_info ELSE comp_info),
                       FS(req[1]).decoded,
                       Max2(1, Len(FS(req[1]).decoded) \div SampleTarget))
        /\ AboutTarget(Len(IF req[2] = "ref" THEN ref_frames ELSE comp_frames))

\* C23: in every state in which a render was performed, after any sequence
\* of loads, zoom requests and fit_to_screen and for every reference
\* resolution, the crop window has cropH >= 2 and cropW >= 2, both even and
\* equal to floor(output / zoom / 2) * 2; no zero-sized crop reaches the copy
\* and resize steps.
C23_CropNeverEmpty ==
    \A i \in DOMAIN renders :
        /\ renders[i].crop_h >= 2 /\ renders[i].crop_w >= 2
        /\ renders[i].crop_h % 2 = 0 /\ renders[i].crop_w % 2 = 0
        /\ i = Len(renders) =>
               /\ renders[i].crop_h = (FloorDivRat(view_h, zoom) \div 2) * 2
               /\ renders[i].crop_w = (FloorDivRat(view_w, zoom) \div 2) * 2

\* C24: across any sequence of render calls the scratch buffer is
\* reallocated exactly in the calls whose required shape (cropH, cropW, 3)
\* differs from the buffer's shape tag, the first call included; in every
\* other call the same buffer is kept and zeroed in place; and the shape tag
\* always equals the shape of the buffer.
C24_ReallocIffShapeDiffers ==
    /\ zoom_buffer_shape = zoom_buffer_dims
    /\ \A i \in DOMAIN renders :
          /\ renders[i].tag = renders[i].dims
          /\ renders[i].allocated
                 <=> renders[i].tag # Some(<< renders[i].crop_h, renders[i].crop_w, 3 >>)
          /\ renders[i].tag = None => renders[i].allocated
          /\ ~renders[i].allocated =>
                 /\ renders[i].dims = Some(<< renders[i].crop_h, renders[i].crop_w, 3 >>)
                 /\ renders[i].under = <<>>
          /\ i > 1 =>
                 renders[i].tag
                     = Some(<< renders[i - 1].crop_h, renders[i - 1].crop_w, 3 >>)
          /\ i = Len(renders) =>
                 zoom_buffer_dims = Some(<< renders[i].crop_h, renders[i].crop_w, 3 >>)

\* one handler's renders replaced a buffer of another shape and then kept
\* the new one, which the call before had written to
C24_Witness ==
    /\ Len(renders) = 3
    /\ renders[1].allocated
    /\ renders[1].tag # None
    /\ ~renders[2].allocated
    /\ renders[2].before # <<>>
    /\ ~crashed

\* C25: no operation other than replacing a sequence changes stored frame
\* data: get_frame_triplet, get_pixel_info, the render (rotate, crop, copy
\* into the scratch buffer, resize), swap_left_right and playback leave the
\* pixel contents and the dimensions of every frame of ref_frames and
\* comp_frames as they were; a swap exchanges the two sequences whole, and a
\* load replaces the sequence of its own side only.
C25_FramesImmutable ==
    [][ /\ ev' \notin {"load", "swap"} =>
              UNCHANGED << ref_frames, comp_frames >>
        /\ ev' = "swap" =>
              (ref_frames' = comp_frames /\ comp_frames' = ref_frames)
        /\ (ev' = "load" /\ req'[2] = "ref") => UNCHANGED comp_frames
        /\ (ev' = "load" /\ req'[2] = "comp") => UNCHANGED ref_frames
      ]_vars

\* a quarter turn rendered the 40x40 reference and the 100x100 comparison,
\* resized, and both sequences are as they were decoded
C25_Witness ==
    /\ ev = "rotate_right"
    /\ rotation_angle = 90
    /\ Len(renders) = 3
    /\ renders[2].img.rs
    /\ ref_frames = Val(load_video("red40.mp4")).frames
    /\ comp_frames = Val(load_video("blue100.avi")).frames

\* C26: after every successful load of a reference or comparison source,
\* once the load handler has completed, the session state is reset:
\* zoom = 1.0, pan = (0, 0), rotation = 0, is_playing = false with the
\* playback timer stopped, and the frame slider at 0.
C26_LoadResetsSession ==
    (ev = "load" /\ ~LoadFails(req[1]) /\ ~crashed) =>
        /\ zoom = [n |-> 1, d |-> 1]
        /\ pan_x = 0 /\ pan_y = 0
        /\ rotation_angle = 0
        /\ ~is_playing /\ ~timer_active
        /\ slider_value = 0

\* the reference's declared width and height as the rotation angle shows them
RotatedW(info, angle) == IF angle \in {90, 270} THEN info.height ELSE info.width
RotatedH(info, angle) == IF angle \in {90, 270} THEN info.width ELSE info.height

\* the crop rectangle of a render takes in the whole frame it was given
WholeFrame(r) == SrcRows(r) = << 0, r.h >> /\ SrcCols(r) = << 0, r.w >>

\* C27: after fit_to_screen with a reference loaded, for every rotation and
\* every reference size (even or odd dimensions), zoom equals
\* min(outW / rotatedW, outH / rotatedH), pan is (0, 0) and the crop window
\* of the render that follows contains every pixel of the rotated reference
\* frame; with no reference loaded fit_to_screen changes nothing.
C27_FitShowsWholeFrame ==
    [][ ev' = "fit" =>
          IF ref_info = None
          THEN /\ UNCHANGED << zoom, pan_x, pan_y, rotation_angle, slider_value,
                               current_frame_idx, zoom_buffer_shape >>
               /\ renders' = <<>>
          ELSE /\ ~crashed'
               /\ zoom' = RMin(Rat(view_w, RotatedW(Val(ref_info), rotation_angle)),
                               Rat(view_h, RotatedH(Val(ref_info), rotation_angle)))
               /\ pan_x' = 0 /\ pan_y' = 0
               /\ renders' # <<>> => WholeFrame(renders'[1])
      ]_vars

\* C28: with looping disabled and playback started on n > 0 frames, under
\* repeated timer ticks and no other events the frame index advances by
\* exactly one per tick and playback eventually stops by itself: on the tick
\* taken at the last frame is_playing becomes false, the timer is stopped,
\* and the slider and the cursor remain at n - 1, never exceeding it.
C28_PlaybackStops ==
    /\ [][ (ev' = "tick" /\ ~loop_enabled /\ frame_count(St) > 0) =>
              IF slider_value + 1 < frame_count(St)
              THEN /\ slider_value' = slider_value + 1
                   /\ current_frame_idx' = slider_value + 1
                   /\ is_playing' /\ timer_active'
              ELSE /\ ~is_playing' /\ ~timer_active'
                   /\ slider_value = frame_count(St) - 1
                   /\ current_frame_idx = frame_count(St) - 1
                   /\ UNCHANGED << slider_value, current_frame_idx >> ]_vars
    /\ (is_playing /\ ~loop_enabled /\ frame_count(St) > 0)
           ~> (~is_playing \/ loop_enabled)

\* playback ran a sequence of three frames through and stopped by itself
C28_Witness ==
    /\ ev = "tick"
    /\ ~loop_enabled
    /\ ~is_playing /\ ~timer_active
    /\ frame_count(St) = 3
    /\ slider_value = 2
    /\ current_frame_idx = 2

\* frame k is the one on display: the slider and the cursor stand at k, and
\* where there is more than one frame a tick has just put it in the viewers
OnDisplay(k) ==
    /\ slider_value = k
    /\ current_frame_idx = k
    /\ frame_count(St) > 1 => (ev = "tick" /\ Len(shown) >= 2)

\* C29: with looping enabled, a playback tick taken at the last frame n - 1
\* moves the slider and the cursor to frame 0 and leaves is_playing true;
\* playback never stops by itself while loop_enabled stays true; and under
\* repeated ticks every frame 0..n-1 is displayed infinitely often.
C29_LoopWraps ==
    /\ [][ (ev' = "tick" /\ loop_enabled /\ is_playing) =>
              /\ is_playing' /\ timer_active'
              /\ (frame_count(St) > 0 /\ slider_value = frame_count(St) - 1) =>
                     (slider_value' = 0 /\ current_frame_idx' = 0) ]_vars
    /\ \A k \in 0..2 :
          (is_playing /\ loop_enabled /\ k < frame_count(St))
              ~> \/ OnDisplay(k)
                 \* or the user paused, turned the loop off or replaced the
                 \* sequence by one without a frame k
                 \/ ~is_playing \/ ~loop_enabled \/ k >= frame_count(St)

\* a tick took a looping playback from the last of three frames back to
\* frame 0 and showed it
C29_Witness ==
    /\ ev = "tick"
    /\ loop_enabled
    /\ is_playing /\ timer_active
    /\ frame_count(St) = 3
    /\ slider_value = 0
    /\ current_frame_idx = 0
    /\ Len(shown) >= 2

\* C30: in every reachable state is_playing is true exactly when the
\* playback timer is active, and a toggle_play received while is_playing is
\* true always pauses playback (timer stopped, is_playing false), after any
\* sequence of loads (loads that yield an empty sequence included), swaps
\* and ticks; toggle_play with frame_count() = 0 and playback stopped never
\* starts playback.
C30_PlayingIffTimer ==
    /\ [][ /\ is_playing' <=> timer_active'
           /\ (ev' = "toggle_play" /\ is_playing) =>
                  (~is_playing' /\ ~timer_active')
           /\ (ev' = "toggle_play" /\ ~is_playing /\ frame_count(St) = 0) =>
                  (~is_playing' /\ ~timer_active') ]_vars
    /\ (is_playing <=> timer_active)

\* s1 is the session after one swap_left_right from the present state
SwapExchanges(s1) ==
    /\ ~s1.exc
    /\ s1.ref_frames = comp_frames /\ s1.comp_frames = ref_frames
    /\ s1.ref_info = comp_info /\ s1.comp_info = ref_info
    /\ s1.ref_path = comp_path /\ s1.comp_path = ref_path
    /\ frame_count(s1) = frame_count(St)
    /\ s1.current_frame_idx = current_frame_idx
    /\ s1.slider_value = slider_value

\* s2 is the session after two
SwapRestores(s2) ==
    /\ ~s2.exc
    /\ s2.ref_frames = ref_frames /\ s2.comp_frames = comp_frames
    /\ s2.ref_info = ref_info /\ s2.comp_info = comp_info
    /\ s2.ref_path = ref_path /\ s2.comp_path = comp_path
    /\ s2.left_title = left_title /\ s2.mid_title = mid_title
    /\ s2.current_frame_idx = current_frame_idx
    /\ s2.zoom = zoom
    /\ s2.rotation_angle = rotation_angle
    /\ s2.pan_x = pan_x /\ s2.pan_y = pan_y

\* C31: swap_left_right exchanges the reference and the comparison
\* sequences together with their metadata and paths while preserving
\* frame_count(), the cursor and the slider value, and applying it twice
\* restores the whole session state: both sequences, their metadata, paths,
\* titles, cursor, zoom, rotation and pan.
C31_SwapInvolution ==
    ~crashed =>
        /\ SwapExchanges(swap_left_right(St))
        /\ SwapRestores(swap_left_right(Fresh(swap_left_right(St))))

====
